---- MODULE Spec2Model ----
(***************************************************************************)
(* The asynchronous image-enhancement workflow of the property-listing     *)
(* backend: ImageService (upload_image, request_enhancement,               *)
(* process_webhook), ImageRepository (get_stuck_images, mark_as_timeout,   *)
(* update_enhancement_status), BaseRepository.update and the periodic      *)
(* check_stuck_images task.                                                *)
(*                                                                         *)
(* Every handler runs in its own database session (get_db /                *)
(* async_session_maker).  A handler is cut into steps at the awaits that   *)
(* touch shared state: the SELECT that loads the row, each storage or      *)
(* provider call, and the flush + commit that publishes the handler's      *)
(* UPDATE.  Pure local work (signature check, UUID parsing, status test)   *)
(* is folded into the step of the await that follows or precedes it.       *)
(***************************************************************************)
EXTENDS Integers, Sequences, FiniteSets, TLC

\* ---------------------------------------------------------------- bounds
NumImages == 1
NumHooks  == 2
NumReqs   == 2
MaxTicks  == 1
MaxBlobs  == 3
MaxCalls  == 3

\* ------------------------------------------------------ program constants
StuckHours == 48

\* The instants at which the clock is observed: a step of one hour more
\* than the stuck threshold and a step of exactly the threshold alternate,
\* so that a record is seen just beyond the threshold and exactly at it.
Instant(k) == ((k + 1) \div 2) * (StuckHours + 1) + (k \div 2) * StuckHours

\* --------------------------------------------------------------- values
None   == "<None>"
NoTime == 0 - 1

Hooks == 1..NumHooks
Reqs  == 1..NumReqs

\* Image ids (uuid4 primary keys), in the order upload_image assigns them.
ImageIds == {"img-" \o ToString(i) : i \in 1..NumImages}

\* A test that takes the empty string for a value.
Truthy_NotNone(s) == s # None

\* Python truthiness of an Optional[str].
Truthy(s) == s # None /\ s # ""

\* EnhancementStatus
PENDING    == "pending"
PROCESSING == "processing"
COMPLETED  == "completed"
FAILED     == "failed"
TIMEOUT    == "timeout"

\* A row created already in processing.
NewImage_Processing(original_url) ==
    [ original_url              |-> original_url,
      enhanced_url              |-> None,
      enhancement_status        |-> PROCESSING,
      ai_job_id                 |-> None,
      enhancement_requested_at  |-> NoTime,
      enhancement_completed_at  |-> NoTime,
      enhancement_error_message |-> None ]

\* A PropertyImage row as upload_image creates it.
NewImage(original_url) ==
    [ original_url              |-> original_url,
      enhanced_url              |-> None,
      enhancement_status        |-> PENDING,
      ai_job_id                 |-> None,
      enhancement_requested_at  |-> NoTime,
      enhancement_completed_at  |-> NoTime,
      enhancement_error_message |-> None ]

VARIABLES
    db,        \* committed property_images rows: [subset of ImageIds -> row]
    storage,   \* blob URLs present in this system's bucket
    tick,      \* number of clock steps taken; utcnow is Instant(tick), in hours
    wpc,       \* webhook handlers: position
    wimage,    \* webhook handlers: id and status of the row loaded into the session
    wargs,     \* webhook handlers: arguments of the pending update_enhancement_status
    rpc,       \* enhancement requests: position
    rimage,    \* enhancement requests: id of the row loaded into the session
    rresult,   \* enhancement requests: the provider's JSON response
    spc,       \* sweeper: position
    stuck,     \* sweeper: ids returned by get_stuck_images
    out,       \* what the step just taken returned, raised and logged
    calls      \* number of calls that went past their first step

vars == <<db, storage, tick, wpc, wimage, wargs,
          rpc, rimage, rresult, spc, stuck, out, calls>>

wvars == <<wpc, wimage, wargs>>
rvars == <<rpc, rimage, rresult>>
svars == <<spc, stuck>>

now == Instant(tick)

NoImage  == [id |-> None, enhancement_status |-> None]
NoArgs   == [status |-> None, enhanced_url |-> None, error_message |-> None]
NoResult == [has_ai_job_id |-> FALSE, ai_job_id |-> None]

\* A step that ends no call returns nothing.
Silent == [op |-> None, outcome |-> None, log |-> None, value |-> None]
Out(op, outcome, log, value) ==
    [op |-> op, outcome |-> outcome, log |-> log, value |-> value]

\* No step is taken between the end of a call and the delivery of its
\* result to the caller: `out` is written by the handlers and read by none.
Quiet == out = Silent

Init ==
    /\ db = <<>>
    /\ storage = {}
    /\ tick = 0
    /\ wpc = [h \in Hooks |-> "idle"]
    /\ wimage = [h \in Hooks |-> NoImage]
    /\ wargs = [h \in Hooks |-> NoArgs]
    /\ rpc = [r \in Reqs |-> "idle"]
    /\ rimage = [r \in Reqs |-> None]
    /\ rresult = [r \in Reqs |-> NoResult]
    /\ spc = "idle"
    /\ stuck = {}
    /\ out = Silent
    /\ calls = 0

\* ---------------------------------------------------------------- clock
Tick ==
    /\ Quiet
    /\ tick < MaxTicks
    /\ tick' = tick + 1
    /\ out' = Silent
    /\ UNCHANGED <<db, storage, wvars, rvars, svars, calls>>

\* -------------------------------------------------------------- storage
\* SupabaseStorage.upload_file prefixes the name with a fresh uuid4, so
\* every upload yields a URL never seen before.
FreshUrl == "blob-" \o ToString(Cardinality(storage) + 1)

\* --------------------------------------------------------------- upload
\* ImageService.upload_image, the path on which the property exists, the
\* file is valid and the blob upload succeeds.
UploadImage ==
    /\ Quiet
    /\ Cardinality(DOMAIN db) < NumImages
    /\ Cardinality(storage) < MaxBlobs
    /\ LET id == "img-" \o ToString(Cardinality(DOMAIN db) + 1)
       IN  db' = db @@ (id :> NewImage(FreshUrl))
    /\ storage' = storage \cup {FreshUrl}
    /\ out' = Out("upload_image", "ok", "image_uploaded", None)
    /\ UNCHANGED <<tick, wvars, rvars, svars, calls>>

\* The steps of upload_image before the row is created, in their order:
\* the property lookup, validate_image, storage.upload_file.  The first one
\* that fails raises and ends the call.
UploadImageOutcome(property_found, file_valid, upload_ok) ==
    IF ~property_found THEN "PropertyNotFoundException"
    ELSE IF ~file_valid THEN "ValidationException"
    ELSE IF ~upload_ok THEN "StorageException"
    ELSE "ok"

\* upload_image on a path where one of these steps fails: the exception
\* leaves the call before image_repo.create.
UploadImageFails(property_found, file_valid, upload_ok) ==
    /\ Quiet
    /\ Cardinality(DOMAIN db) < NumImages
    /\ UploadImageOutcome(property_found, file_valid, upload_ok) # "ok"
    /\ out' = Out("upload_image",
                  UploadImageOutcome(property_found, file_valid, upload_ok),
                  None, None)
    /\ UNCHANGED <<db, storage, tick, wvars, rvars, svars, calls>>

\* ------------------------------------------------- enhancement request
\* A status test that also lets a timed-out image be enhanced again.
CanEnhance_AlsoTimeout(status) == status \in {PENDING, FAILED, TIMEOUT}

\* The status test of ImageService.request_enhancement.
CanEnhance(status) == status \in {PENDING, FAILED}

\* HTTP exchanges AIServiceClient.request_enhancement can have with the
\* provider: a 2xx answer whose JSON object carries "ai_job_id" with a
\* string, carries it with null, or does not carry it; a non-2xx answer
\* (raise_for_status); a network error; the 30 s timeout.
ProviderJobId(r) == "job-" \o ToString(r)

AIExchanges(r) ==
    { [kind |-> "2xx", json |-> [has_ai_job_id |-> TRUE,  ai_job_id |-> ProviderJobId(r)]],
      [kind |-> "2xx", json |-> [has_ai_job_id |-> TRUE,  ai_job_id |-> None]],
      [kind |-> "2xx", json |-> [has_ai_job_id |-> FALSE, ai_job_id |-> None]],
      [kind |-> "status_error", json |-> NoResult],
      [kind |-> "network_error", json |-> NoResult],
      [kind |-> "timeout", json |-> NoResult] }

\* A client that never calls raise_for_status and reads the body of any answer.
AIRequestEnhancement_NoRaiseForStatus(exchange) ==
    IF exchange.kind \in {"2xx", "status_error"}
    THEN [raised |-> None, result |-> exchange.json]
    ELSE [raised |-> "ImageEnhancementException", result |-> NoResult]

\* AIServiceClient.request_enhancement: the JSON result, or the exception.
AIRequestEnhancement(exchange) ==
    IF exchange.kind = "2xx"
    THEN [raised |-> None, result |-> exchange.json]
    ELSE [raised |-> "ImageEnhancementException", result |-> NoResult]

\* result.get("ai_job_id", default) and result.get("ai_job_id")
DictGet(result, default) ==
    IF result.has_ai_job_id THEN result.ai_job_id ELSE default

\* An update that keeps a request time that is already set.
BaseUpdate_KeepRequestedAt(rows, id, status, ai_job_id, requested_at) ==
    IF id \in DOMAIN rows
    THEN [rows EXCEPT ![id] = [@ EXCEPT !.enhancement_status = status,
                                        !.ai_job_id = ai_job_id,
                                        !.enhancement_requested_at =
                                            IF @ = NoTime THEN requested_at ELSE @]]
    ELSE rows

\* BaseRepository.update for the three columns request_enhancement sets:
\* one UPDATE ... WHERE id = :id, which changes nothing when no row matches.
BaseUpdate(rows, id, status, ai_job_id, requested_at) ==
    IF id \in DOMAIN rows
    THEN [rows EXCEPT ![id] = [@ EXCEPT !.enhancement_status = status,
                                        !.ai_job_id = ai_job_id,
                                        !.enhancement_requested_at = requested_at]]
    ELSE rows

RSet(r, pc, image, result) ==
    /\ rpc' = [rpc EXCEPT ![r] = pc]
    /\ rimage' = [rimage EXCEPT ![r] = image]
    /\ rresult' = [rresult EXCEPT ![r] = result]

RRaise(r, exception, log) ==
    /\ RSet(r, "idle", None, NoResult)
    /\ out' = Out("request_enhancement", exception, log, None)

\* request_enhancement up to the provider call: load the row, test its status.
\* The handlers run the same code: a call is served by the first free one.
ReqBegin(r, image_id) ==
    /\ Quiet
    /\ rpc[r] = "idle"
    /\ \A q \in Reqs : q < r => rpc[q] # "idle"
    /\ IF image_id \notin DOMAIN db
       THEN RRaise(r, "ImageNotFoundException", None)
       ELSE IF ~CanEnhance(db[image_id].enhancement_status)
       THEN RRaise(r, "ValidationException", None)
       ELSE RSet(r, "call", image_id, NoResult) /\ out' = Silent
    /\ calls' = IF rpc'[r] = "idle" THEN calls ELSE calls + 1
    /\ calls' <= MaxCalls
    /\ UNCHANGED <<db, storage, tick, wvars, svars>>

\* The awaited provider call returns or raises.
ReqCallAI(r, exchange) ==
    /\ Quiet
    /\ rpc[r] = "call"
    /\ LET answer == AIRequestEnhancement(exchange)
       IN  IF answer.raised # None
           THEN RRaise(r, "ImageEnhancementException", "enhancement_request_failed")
           ELSE RSet(r, "update", rimage[r], answer.result) /\ out' = Silent
    /\ UNCHANGED <<db, storage, tick, wvars, svars, calls>>

\* An update without its WHERE clause: every row is written.
ReqUpdate_AllRows(r) ==
    /\ Quiet
    /\ rpc[r] = "update"
    /\ db' = [id \in DOMAIN db |->
                [db[id] EXCEPT !.enhancement_status = PROCESSING,
                               !.ai_job_id = DictGet(rresult[r], rimage[r]),
                               !.enhancement_requested_at = now]]
    /\ RSet(r, "idle", None, NoResult)
    /\ out' = Out("request_enhancement", "ok", "enhancement_requested",
                  DictGet(rresult[r], None))
    /\ UNCHANGED <<storage, tick, wvars, svars, calls>>

\* image_repo.update(...) and db.commit(), then the returned dict.
ReqUpdate(r) ==
    /\ Quiet
    /\ rpc[r] = "update"
    /\ db' = BaseUpdate(db, rimage[r], PROCESSING,
                        DictGet(rresult[r], rimage[r]), now)
    /\ RSet(r, "idle", None, NoResult)
    /\ out' = Out("request_enhancement", "ok", "enhancement_requested",
                  DictGet(rresult[r], None))
    /\ UNCHANGED <<storage, tick, wvars, svars, calls>>

\* -------------------------------------------------------------- webhook
\* uuid.UUID(text) accepts the canonical text of a UUID and also its braced
\* form; anything else raises ValueError.
Braced(id) == "{" \o id \o "}"

\* A parser that takes any other text for the id of the first image.
ParseUUID_Lenient(text) ==
    IF \E id \in ImageIds : text \in {id, Braced(id)}
    THEN CHOOSE id \in ImageIds : text \in {id, Braced(id)}
    ELSE "img-1"

ParseUUID(text) ==
    IF \E id \in ImageIds : text \in {id, Braced(id)}
    THEN CHOOSE id \in ImageIds : text \in {id, Braced(id)}
    ELSE "ValueError"

ProviderUrl   == "https://provider/enhanced.jpg"
ProviderError == "provider: out of memory"

\* WebhookAIEnhancementRequest (processing_time_seconds only feeds a metric
\* and a log line).
Payload(job_id, status, enhanced_image_url, error_message) ==
    [ job_id             |-> job_id,
      status             |-> status,
      enhanced_image_url |-> enhanced_image_url,
      error_message      |-> error_message ]

\* For the id of every image: success with a URL, with an empty URL and
\* without one; failed with a message, with an empty message and without
\* one; a status that is neither.
ResultData ==
    UNION { { Payload(id, "success", ProviderUrl, None),
              Payload(id, "success", "", None),
              Payload(id, "success", None, None),
              Payload(id, "failed", None, ProviderError),
              Payload(id, "failed", None, ""),
              Payload(id, "failed", None, None),
              Payload(id, "cancelled", None, None) } : id \in ImageIds }

\* A success report under the canonical text of an id or under a text
\* that is not a UUID.
ProbeData ==
    { Payload(text, "success", ProviderUrl, None) :
        text \in ImageIds \cup {"not-a-uuid"} }

WebhookData ==
    ResultData \cup ProbeData
    \cup { Payload(Braced(id), "success", ProviderUrl, None) : id \in ImageIds }

\* The bytes of a request body: the same fields can arrive in pydantic's
\* own compact serialisation or in any other JSON layout.
Body(format, data) == [format |-> format, data |-> data]
\* FastAPI's parsing of the body into the request model.
ParseBody(body) == body.data
\* WebhookAIEnhancementRequest.model_dump_json()
ModelDumpJson(data) == Body("compact", data)

\* hmac.new(key, msg, sha256).hexdigest(), taken to be collision free.
Secret   == "AI_SERVICE_WEBHOOK_SECRET"
WrongKey == "some-other-key"
HmacSha256Hex(key, msg) == [key |-> key, msg |-> msg]

\* A verification that compares the signed message and not the key.
VerifySignature_AnyKey(payload, signature) ==
    signature.msg = payload

\* ImageService._verify_signature
VerifySignature(payload, signature) ==
    HmacSha256Hex(Secret, payload) = signature

\* Inbound deliveries: a body and the X-Webhook-Signature header.  Every
\* payload arrives in the compact layout signed with the right key.  The
\* probes also arrive signed with a wrong key, in another layout signed
\* over the bytes sent, and in another layout signed over the compact
\* serialisation.
Delivery(body, key, signed) ==
    [body |-> body, signature |-> HmacSha256Hex(key, signed)]

Deliveries ==
    { Delivery(Body("compact", d), Secret, Body("compact", d)) : d \in WebhookData }
    \cup { Delivery(Body("compact", d), WrongKey, Body("compact", d)) : d \in ProbeData }
    \cup { Delivery(Body("pretty", d), Secret, Body("pretty", d)) : d \in ProbeData }
    \cup { Delivery(Body("pretty", d), Secret, Body("compact", d)) : d \in ProbeData }

\* A duplicate test that only knows completed records.
IsDuplicate_CompletedOnly(status) == status = COMPLETED

\* The duplicate test of ImageService.process_webhook.
IsDuplicate(status) == status \in {COMPLETED, FAILED}

ProcessingFailedMessage == "Failed to process enhanced image: StorageException"
GenericFailedMessage    == "Enhancement failed"

\* An `or` that never falls back to its second operand.
Or_NoFallback(a, b) == a

\* Python's `a or b` on Optional[str].
Or(a, b) == IF Truthy(a) THEN a ELSE b

\* An update that never stamps the completion time.
UpdateEnhancementStatus_NoCompletedAt(rows, id, status, enhanced_url, error_message, utcnow) ==
    IF id \in DOMAIN rows
    THEN [rows EXCEPT ![id] =
            [@ EXCEPT !.enhancement_status = status,
                      !.enhanced_url =
                          IF Truthy(enhanced_url) THEN enhanced_url ELSE @,
                      !.enhancement_error_message =
                          IF Truthy(error_message) THEN error_message ELSE @]]
    ELSE rows

\* ImageRepository.update_enhancement_status applied to the committed rows.
UpdateEnhancementStatus(rows, id, status, enhanced_url, error_message, utcnow) ==
    IF id \in DOMAIN rows
    THEN [rows EXCEPT ![id] =
            [@ EXCEPT !.enhancement_status = status,
                      !.enhanced_url =
                          IF Truthy(enhanced_url) THEN enhanced_url ELSE @,
                      !.enhancement_error_message =
                          IF Truthy(error_message) THEN error_message ELSE @,
                      !.enhancement_completed_at =
                          IF status = COMPLETED \/ status = FAILED
                          THEN utcnow ELSE @]]
    ELSE rows

WSet(h, pc, image, args) ==
    /\ wpc' = [wpc EXCEPT ![h] = pc]
    /\ wimage' = [wimage EXCEPT ![h] = image]
    /\ wargs' = [wargs EXCEPT ![h] = args]

\* A return that acknowledges whatever the handler decided.
WReturn_AlwaysTrue(h, outcome, log) ==
    /\ WSet(h, "idle", NoImage, NoArgs)
    /\ out' = Out("process_webhook", "True", log, None)

WReturn(h, outcome, log) ==
    /\ WSet(h, "idle", NoImage, NoArgs)
    /\ out' = Out("process_webhook", outcome, log, None)

\* process_webhook from its entry to the first await after the row is
\* loaded: signature, job id, lookup, duplicate test, dispatch.
\* The handlers run the same code: a delivery is served by the first free one.
WebhookBegin(h, delivery) ==
    LET data     == ParseBody(delivery.body)
        image_id == ParseUUID(data.job_id)
        image    == [id |-> image_id,
                     enhancement_status |-> db[image_id].enhancement_status]
    IN
    /\ Quiet
    /\ wpc[h] = "idle"
    /\ \A g \in Hooks : g < h => wpc[g] # "idle"
    /\ IF ~VerifySignature(ModelDumpJson(data), delivery.signature)
       THEN WReturn(h, "ValidationException", "webhook_signature_invalid")
       ELSE IF image_id = "ValueError"
       THEN WReturn(h, "False", "webhook_invalid_job_id")
       ELSE IF image_id \notin DOMAIN db
       THEN WReturn(h, "False", "webhook_image_not_found")
       ELSE IF IsDuplicate(db[image_id].enhancement_status)
       THEN WReturn(h, "True", "webhook_duplicate_ignored")
       ELSE IF data.status = "success" /\ Truthy(data.enhanced_image_url)
       THEN WSet(h, "download", image, NoArgs) /\ out' = Silent
       ELSE IF data.status = "failed"
       THEN /\ WSet(h, "update", image,
                    [status |-> FAILED, enhanced_url |-> None,
                     error_message |-> Or(data.error_message, GenericFailedMessage)])
            /\ out' = Silent
       ELSE WReturn(h, "True", None)
    /\ calls' = IF wpc'[h] = "idle" THEN calls ELSE calls + 1
    /\ calls' <= MaxCalls
    /\ UNCHANGED <<db, storage, tick, rvars, svars>>

\* A failure recorded without a message.
FailedArgs_NoMessage ==
    [status |-> FAILED, enhanced_url |-> None, error_message |-> None]

\* The except branch of _process_success.
FailedArgs ==
    [status |-> FAILED, enhanced_url |-> None,
     error_message |-> ProcessingFailedMessage]

\* _process_success: storage.download_file returns or raises.
WebhookDownload(h, ok) ==
    /\ Quiet
    /\ wpc[h] = "download"
    /\ IF ok
       THEN WSet(h, "upload", wimage[h], NoArgs)
       ELSE WSet(h, "update", wimage[h], FailedArgs)
    /\ out' = Silent
    /\ UNCHANGED <<db, storage, tick, rvars, svars, calls>>

\* _process_success: storage.upload_file returns the new URL or raises.
WebhookUpload(h, ok) ==
    /\ Quiet
    /\ wpc[h] = "upload"
    /\ IF ok
       THEN /\ Cardinality(storage) < MaxBlobs
            /\ storage' = storage \cup {FreshUrl}
            /\ WSet(h, "update", wimage[h],
                    [status |-> COMPLETED, enhanced_url |-> FreshUrl,
                     error_message |-> None])
       ELSE /\ storage' = storage
            /\ WSet(h, "update", wimage[h], FailedArgs)
    /\ out' = Silent
    /\ UNCHANGED <<db, tick, rvars, svars, calls>>

WebhookLog(args) ==
    IF args.status = COMPLETED THEN "enhancement_completed"
    ELSE IF args.error_message = ProcessingFailedMessage
    THEN "enhancement_processing_failed"
    ELSE "enhancement_failed"

\* update_enhancement_status, db.commit() and `return True`.
WebhookUpdate(h) ==
    /\ Quiet
    /\ wpc[h] = "update"
    /\ db' = UpdateEnhancementStatus(db, wimage[h].id, wargs[h].status,
                                     wargs[h].enhanced_url,
                                     wargs[h].error_message, now)
    /\ WReturn(h, "True", WebhookLog(wargs[h]))
    /\ UNCHANGED <<storage, tick, rvars, svars, calls>>

\* A statement sent to the database (the flush of update_enhancement_status
\* or db.commit()) raises: the error leaves process_webhook, get_db rolls
\* the session back and no column changes.
WebhookCommitFails(h) ==
    /\ Quiet
    /\ wpc[h] = "update"
    /\ WReturn(h, "SQLAlchemyError", WebhookLog(wargs[h]))
    /\ UNCHANGED <<db, storage, tick, rvars, svars, calls>>

\* ai_enhancement_webhook around process_webhook: True gives the
\* SuccessResponse (200, success = true); False raises HTTPException(400)
\* inside the try block, and that and every other exception is caught and
\* raised again as HTTPException(400).
\* An endpoint that also acknowledges a False result.
AiEnhancementWebhookResponse_FalseIs200(outcome) ==
    IF outcome \in {"True", "False"}
    THEN [status_code |-> "200", log |-> "webhook_processed", body |-> "success: true"]
    ELSE [status_code |-> "400", log |-> "webhook_processing_failed", body |-> "detail"]

AiEnhancementWebhookResponse(outcome) ==
    IF outcome = "True"
    THEN [status_code |-> "200", log |-> "webhook_processed", body |-> "success: true"]
    ELSE [status_code |-> "400", log |-> "webhook_processing_failed", body |-> "detail"]

AiEnhancementWebhook ==
    /\ out.op = "process_webhook"
    /\ LET response == AiEnhancementWebhookResponse(out.outcome)
       IN  out' = Out("ai_enhancement_webhook", response.status_code,
                      response.log, response.body)
    /\ UNCHANGED <<db, storage, tick, wvars, rvars, svars, calls>>

\* -------------------------------------------------------------- sweeper
\* A scan that lists every old record, whatever its status.
GetStuckImages_IgnoreStatus(rows, hours, utcnow) ==
    { id \in DOMAIN rows :
        /\ rows[id].enhancement_requested_at # NoTime
        /\ rows[id].enhancement_requested_at < utcnow - hours }

\* ImageRepository.get_stuck_images: a NULL enhancement_requested_at never
\* satisfies the comparison.
GetStuckImages(rows, hours, utcnow) ==
    { id \in DOMAIN rows :
        /\ rows[id].enhancement_status = PROCESSING
        /\ rows[id].enhancement_requested_at # NoTime
        /\ rows[id].enhancement_requested_at < utcnow - hours }

\* A marking that writes nothing.
MarkAsTimeout_Noop(rows, image_ids) == rows

\* ImageRepository.mark_as_timeout: every listed row that still exists gets
\* status timeout, whatever its status is by now; the count is the number
\* of rows found.
MarkAsTimeout(rows, image_ids) ==
    [ id \in DOMAIN rows |->
        IF id \in image_ids
        THEN [rows[id] EXCEPT !.enhancement_status = TIMEOUT]
        ELSE rows[id] ]

MarkAsTimeoutCount(rows, image_ids) == Cardinality(image_ids \cap DOMAIN rows)

\* check_stuck_images up to the scan; with nothing stuck it returns 0.
SweepScan ==
    /\ Quiet
    /\ spc = "idle"
    /\ LET found == GetStuckImages(db, StuckHours, now)
       IN  IF found = {}
           THEN /\ spc' = "idle" /\ stuck' = {}
                /\ out' = Out("check_stuck_images", "ok",
                              "check_stuck_images_completed", 0)
           ELSE /\ spc' = "mark" /\ stuck' = found
                /\ out' = Silent
    /\ calls' = IF spc' = "idle" THEN calls ELSE calls + 1
    /\ calls' <= MaxCalls
    /\ UNCHANGED <<db, storage, tick, wvars, rvars>>

\* mark_as_timeout, db.commit() and `return count`.
SweepMark ==
    /\ Quiet
    /\ spc = "mark"
    /\ db' = MarkAsTimeout(db, stuck)
    /\ out' = Out("check_stuck_images", "ok",
                  "stuck_images_marked_timeout", MarkAsTimeoutCount(db, stuck))
    /\ spc' = "idle"
    /\ stuck' = {}
    /\ UNCHANGED <<storage, tick, wvars, rvars, calls>>

\* The store fails while the sweep scans: get_stuck_images raises, the
\* error leaves asyncio.run and the task; nothing was written.
SweepScanFails ==
    /\ Quiet
    /\ spc = "idle"
    /\ out' = Out("check_stuck_images", "SQLAlchemyError", None, None)
    /\ UNCHANGED <<db, storage, tick, wvars, rvars, svars, calls>>

\* The store fails in mark_as_timeout or at db.commit(): the error leaves
\* asyncio.run and the task, and the session closes without a commit.
SweepMarkFails ==
    /\ Quiet
    /\ spc = "mark"
    /\ spc' = "idle"
    /\ stuck' = {}
    /\ out' = Out("check_stuck_images", "SQLAlchemyError", None, None)
    /\ UNCHANGED <<db, storage, tick, wvars, rvars, calls>>

\* ------------------------------------------------------------ responses
\* The result of the call that just ended reaches its caller.
Respond ==
    /\ ~Quiet
    /\ out.op # "process_webhook"
    /\ out' = Silent
    /\ UNCHANGED <<db, storage, tick, wvars, rvars, svars, calls>>

\* --------------------------------------------------------- specification
Next ==
    \/ Tick
    \/ UploadImage
    \/ \E p, v, u \in BOOLEAN : UploadImageFails(p, v, u)
    \/ \E r \in Reqs, id \in ImageIds : ReqBegin(r, id)
    \/ \E r \in Reqs : \E x \in AIExchanges(r) : ReqCallAI(r, x)
    \/ \E r \in Reqs : ReqUpdate(r)
    \/ \E h \in Hooks, d \in Deliveries : WebhookBegin(h, d)
    \/ \E h \in Hooks, ok \in BOOLEAN : WebhookDownload(h, ok)
    \/ \E h \in Hooks, ok \in BOOLEAN : WebhookUpload(h, ok)
    \/ \E h \in Hooks : WebhookUpdate(h)
    \/ \E h \in Hooks : WebhookCommitFails(h)
    \/ AiEnhancementWebhook
    \/ SweepScan
    \/ SweepScanFails
    \/ SweepMark
    \/ SweepMarkFails
    \/ Respond

Spec == Init /\ [][Next]_vars

\* Handlers in flight.
InFlight ==
    Cardinality({h \in Hooks : wpc[h] # "idle"})
    + Cardinality({r \in Reqs : rpc[r] # "idle"})
    + (IF spc # "idle" THEN 1 ELSE 0)

\* The same operations called one after the other: a call starts only when
\* no other call is in flight.
SeqNext ==
    \/ Tick
    \/ UploadImage
    \/ \E p, v, u \in BOOLEAN : UploadImageFails(p, v, u)
    \/ InFlight = 0 /\ \E r \in Reqs, id \in ImageIds : ReqBegin(r, id)
    \/ \E r \in Reqs : \E x \in AIExchanges(r) : ReqCallAI(r, x)
    \/ \E r \in Reqs : ReqUpdate(r)
    \/ InFlight = 0 /\ \E h \in Hooks, d \in Deliveries : WebhookBegin(h, d)
    \/ \E h \in Hooks, ok \in BOOLEAN : WebhookDownload(h, ok)
    \/ \E h \in Hooks, ok \in BOOLEAN : WebhookUpload(h, ok)
    \/ \E h \in Hooks : WebhookUpdate(h)
    \/ \E h \in Hooks : WebhookCommitFails(h)
    \/ AiEnhancementWebhook
    \/ InFlight = 0 /\ SweepScan
    \/ InFlight = 0 /\ SweepScanFails
    \/ SweepMark
    \/ SweepMarkFails
    \/ Respond

SeqSpec == Init /\ [][SeqNext]_vars

\* The operations under the beat schedule: the clock advances and the
\* sweep task is started every 15 minutes whatever else is going on, and a
\* started sweep whose store works runs to its end.  The model's clock and
\* call budget are finite, so a record enters processing only at an instant
\* from which the clock can still pass its deadline, and requests and
\* webhooks leave one call of the budget to the sweep.
LiveNext ==
    \/ Tick
    \/ UploadImage
    \/ calls + 1 < MaxCalls /\ \E r \in Reqs, id \in ImageIds : ReqBegin(r, id)
    \/ \E r \in Reqs : \E x \in AIExchanges(r) : ReqCallAI(r, x)
    \/ Instant(MaxTicks) > now + StuckHours /\ \E r \in Reqs : ReqUpdate(r)
    \/ calls + 1 < MaxCalls /\ \E h \in Hooks, d \in Deliveries : WebhookBegin(h, d)
    \/ \E h \in Hooks, ok \in BOOLEAN : WebhookDownload(h, ok)
    \/ \E h \in Hooks, ok \in BOOLEAN : WebhookUpload(h, ok)
    \/ \E h \in Hooks : WebhookUpdate(h)
    \/ AiEnhancementWebhook
    \/ SweepScan
    \/ SweepMark
    \/ Respond

LiveSpec ==
    /\ Init
    /\ [][LiveNext]_vars
    /\ SF_vars(Tick)
    /\ SF_vars(SweepScan)
    /\ SF_vars(SweepMark)
    /\ WF_vars(AiEnhancementWebhook)
    /\ WF_vars(Respond)

\* The state of the handlers between calls.
Idle ==
    /\ wpc = [h \in Hooks |-> "idle"]
    /\ wimage = [h \in Hooks |-> NoImage]
    /\ wargs = [h \in Hooks |-> NoArgs]
    /\ rpc = [r \in Reqs |-> "idle"]
    /\ rimage = [r \in Reqs |-> None]
    /\ rresult = [r \in Reqs |-> NoResult]
    /\ spc = "idle"
    /\ stuck = {}
    /\ out = Silent
    /\ calls = 0

\* The webhook with which the provider reports the failure of a job.
FirstAttemptWebhook ==
    Delivery(Body("compact", Payload("img-1", "failed", None, ProviderError)),
             Secret,
             Body("compact", Payload("img-1", "failed", None, ProviderError)))

\* The first image after its first enhancement attempt: requested at the
\* first instant under the provider's job id, then failed by
\* FirstAttemptWebhook.
AfterFirstAttempt ==
    [ NewImage("blob-1") EXCEPT
        !.enhancement_status        = FAILED,
        !.ai_job_id                 = ProviderJobId(1),
        !.enhancement_requested_at  = Instant(0),
        !.enhancement_completed_at  = Instant(0),
        !.enhancement_error_message = ProviderError ]

ResubmitInit ==
    /\ db = ("img-1" :> AfterFirstAttempt)
    /\ storage = {"blob-1"}
    /\ tick = 0
    /\ Idle

\* The calls made, one after the other, on uploaded images.
ResubmitNext ==
    \/ Tick
    \/ InFlight = 0 /\ \E r \in Reqs, id \in ImageIds : ReqBegin(r, id)
    \/ \E r \in Reqs : \E x \in AIExchanges(r) : ReqCallAI(r, x)
    \/ \E r \in Reqs : ReqUpdate(r)
    \/ InFlight = 0 /\ \E h \in Hooks, d \in Deliveries : WebhookBegin(h, d)
    \/ \E h \in Hooks, ok \in BOOLEAN : WebhookDownload(h, ok)
    \/ \E h \in Hooks, ok \in BOOLEAN : WebhookUpload(h, ok)
    \/ \E h \in Hooks : WebhookUpdate(h)
    \/ AiEnhancementWebhook
    \/ InFlight = 0 /\ SweepScan
    \/ SweepMark
    \/ Respond

\* The workflow from the moment the first attempt has failed.
ResubmitSpec == ResubmitInit /\ [][ResubmitNext]_vars

\* Another image of the catalogue, uploaded and requested before the first
\* one; no call of the model names it.
Bystander == "img-0"

BystanderImage ==
    [ NewImage("blob-2") EXCEPT
        !.enhancement_status       = PROCESSING,
        !.ai_job_id                = Bystander,
        !.enhancement_requested_at = Instant(0) ]

FrameInit ==
    /\ db = ("img-1" :> NewImage("blob-1")) @@ (Bystander :> BystanderImage)
    /\ storage = {"blob-1", "blob-2"}
    /\ tick = 0
    /\ Idle

\* The calls, overlapping freely, on uploaded images.
FrameNext ==
    \/ Tick
    \/ \E r \in Reqs, id \in ImageIds : ReqBegin(r, id)
    \/ \E r \in Reqs : \E x \in AIExchanges(r) : ReqCallAI(r, x)
    \/ \E r \in Reqs : ReqUpdate(r)
    \/ \E h \in Hooks, d \in Deliveries : WebhookBegin(h, d)
    \/ \E h \in Hooks, ok \in BOOLEAN : WebhookDownload(h, ok)
    \/ \E h \in Hooks, ok \in BOOLEAN : WebhookUpload(h, ok)
    \/ \E h \in Hooks : WebhookUpdate(h)
    \/ \E h \in Hooks : WebhookCommitFails(h)
    \/ AiEnhancementWebhook
    \/ SweepScan
    \/ SweepMark
    \/ Respond

\* The workflow on a catalogue of two images.
FrameSpec == FrameInit /\ [][FrameNext]_vars

TypeOK ==
    /\ DOMAIN db \subseteq ImageIds
    /\ \A id \in DOMAIN db :
         db[id].enhancement_status \in {PENDING, PROCESSING, COMPLETED, FAILED, TIMEOUT}
    /\ \A h \in Hooks : wpc[h] \in {"idle", "download", "upload", "update"}
    /\ \A r \in Reqs : rpc[r] \in {"idle", "call", "update"}
    /\ spc \in {"idle", "mark"}

\* =================================================================
\* Properties
\* =================================================================

\* The transitions of the state machine table.
TableEdges ==
    { <<PENDING, PROCESSING>>, <<FAILED, PROCESSING>>,
      <<PROCESSING, COMPLETED>>, <<PROCESSING, FAILED>>,
      <<PROCESSING, TIMEOUT>> }

\* C1: every change of a record's status, by whatever step, is one of the
\* table's transitions.
C1_OnlyTableTransitions ==
    [][\A id \in DOMAIN db :
          \/ db'[id].enhancement_status = db[id].enhancement_status
          \/ <<db[id].enhancement_status, db'[id].enhancement_status>> \in TableEdges]_vars

\* C2: with a sweep and a success webhook racing on one record, no record
\* has status timeout together with an enhanced URL, and no completed
\* record is overwritten to timeout.
C2_RaceSafety ==
    /\ [](\A id \in DOMAIN db :
             ~(db[id].enhancement_status = TIMEOUT /\ db[id].enhanced_url # None))
    /\ [][\A id \in DOMAIN db :
             db[id].enhancement_status = COMPLETED
                 => db'[id].enhancement_status # TIMEOUT]_vars

\* C3: a success webhook whose handler loaded the record as processing never
\* completes a record that already has an enhanced URL: two concurrent
\* deliveries yield one completion and the URL is never overwritten.
C3_AtMostOneCompletion ==
    [][\A h \in Hooks :
          (/\ wimage[h].enhancement_status = PROCESSING
           /\ wargs[h].status = COMPLETED
           /\ WebhookUpdate(h))
          => db[wimage[h].id].enhanced_url = None]_vars

\* A delivery whose signature is the keyed digest of the serialised model.
ValidlySigned(d) ==
    d.signature = HmacSha256Hex(Secret, ModelDumpJson(ParseBody(d.body)))

\* The record a delivery names, when its job id is the text of a UUID.
Names(d, id) == ParseBody(d.body).job_id \in {id, Braced(id)}

\* C4: called one after the other, a validly signed delivery for a record
\* that is completed or failed returns True and changes neither the rows
\* nor the blobs nor any handler, and a completed record never changes
\* again, so a second identical success delivery leaves enhanced_url alone.
C4_SequentialIdempotence ==
    /\ [][\A h \in Hooks, d \in Deliveries, id \in DOMAIN db :
             (/\ ValidlySigned(d)
              /\ Names(d, id)
              /\ db[id].enhancement_status \in {COMPLETED, FAILED}
              /\ WebhookBegin(h, d))
             => /\ out' = Out("process_webhook", "True",
                              "webhook_duplicate_ignored", None)
                /\ UNCHANGED <<db, storage, wvars>>]_vars
    /\ [][\A id \in DOMAIN db :
             db[id].enhancement_status = COMPLETED => db'[id] = db[id]]_vars

\* A duplicate delivery was acknowledged for a completed record.
C4_Witness ==
    /\ out = Out("process_webhook", "True", "webhook_duplicate_ignored", None)
    /\ \E id \in DOMAIN db :
         /\ db[id].enhancement_status = COMPLETED
         /\ db[id].enhanced_url # None

\* C5: a delivery whose signature is not the keyed digest of its payload
\* raises the validation error and touches no row, blob or handler, also
\* when its job id names an existing record.
C5_SignatureEnforcement ==
    [][\A h \in Hooks, d \in Deliveries :
          (~ValidlySigned(d) /\ WebhookBegin(h, d))
          => /\ out' = Out("process_webhook", "ValidationException",
                           "webhook_signature_invalid", None)
             /\ UNCHANGED <<db, storage, tick, wvars, rvars, svars>>]_vars

\* A delivery was rejected for its signature while a record is processing.
C5_Witness ==
    /\ out = Out("process_webhook", "ValidationException",
                 "webhook_signature_invalid", None)
    /\ \E id \in DOMAIN db : db[id].enhancement_status = PROCESSING

\* C6: a record has an enhanced URL exactly when its status is completed.
C6_EnhancedUrlIffCompleted ==
    \A id \in DOMAIN db :
        db[id].enhanced_url # None <=> db[id].enhancement_status = COMPLETED

\* C7: a record has a completion time exactly when its status is completed
\* or failed.
C7_CompletedAtIffTerminal ==
    \A id \in DOMAIN db :
        db[id].enhancement_completed_at # NoTime
            <=> db[id].enhancement_status \in {COMPLETED, FAILED}

\* C8: a request for a record that is processing, completed or timeout
\* raises the validation error; the handler does not go on to the provider
\* call and no row changes.
C8_RequestRejected ==
    [][\A r \in Reqs, id \in DOMAIN db :
          (/\ db[id].enhancement_status \in {PROCESSING, COMPLETED, TIMEOUT}
           /\ ReqBegin(r, id))
          => /\ out' = Out("request_enhancement", "ValidationException", None, None)
             /\ rpc'[r] = "idle"
             /\ UNCHANGED <<db, storage, rvars>>]_vars

\* A request was rejected while the record is completed.
C8_Witness ==
    /\ out = Out("request_enhancement", "ValidationException", None, None)
    /\ \E id \in DOMAIN db : db[id].enhancement_status = COMPLETED

\* The id the provider returned, or the record id when it returned none.
ReturnedOrRecordId(result, id) ==
    IF result.has_ai_job_id /\ result.ai_job_id # None
    THEN result.ai_job_id ELSE id

\* C9: the update after a successful provider call sets, in one step,
\* status processing, the job id the provider returned (the record id when
\* it returned none) and the request time.
C9_RequestUpdate ==
    [][\A r \in Reqs :
          ReqUpdate(r)
          => LET id == rimage[r]
             IN  /\ db'[id].enhancement_status = PROCESSING
                 /\ db'[id].ai_job_id = ReturnedOrRecordId(rresult[r], id)
                 /\ db'[id].enhancement_requested_at = now]_vars

\* C10: when the provider call fails, request_enhancement raises the
\* enhancement error, the handler ends, and no row or blob changes.
C10_RequesterFailure ==
    [][\A r \in Reqs : \A x \in AIExchanges(r) :
          (x.kind # "2xx" /\ ReqCallAI(r, x))
          => /\ out' = Out("request_enhancement", "ImageEnhancementException",
                           "enhancement_request_failed", None)
             /\ rpc'[r] = "idle"
             /\ UNCHANGED <<db, storage>>]_vars

\* A request failed at the provider and the record is still pending or
\* failed, with no job id and no request time from this call.
C10_Witness ==
    /\ out = Out("request_enhancement", "ImageEnhancementException",
                 "enhancement_request_failed", None)
    /\ \E id \in DOMAIN db :
         /\ db[id].enhancement_status \in {PENDING, FAILED}
         /\ db[id].ai_job_id = None

\* C11: called on its own, the sweep lists exactly the records that are
\* processing and were requested more than the threshold ago, changes
\* nothing while it scans, sets exactly the listed records to timeout and
\* nothing else in them or in any other record, and returns the number of
\* records it moved from processing to timeout.
C11_SweepExactlyStuck ==
    /\ [][SweepScan
            => LET due == { id \in DOMAIN db :
                              /\ db[id].enhancement_status = PROCESSING
                              /\ db[id].enhancement_requested_at # NoTime
                              /\ db[id].enhancement_requested_at + StuckHours < now }
               IN  /\ db' = db
                   /\ IF due = {}
                      THEN /\ spc' = "idle"
                           /\ out' = Out("check_stuck_images", "ok",
                                         "check_stuck_images_completed", 0)
                      ELSE /\ spc' = "mark"
                           /\ stuck' = due]_vars
    /\ [][SweepMark
            => /\ DOMAIN db' = DOMAIN db
               /\ \A id \in DOMAIN db :
                     db'[id] = IF id \in stuck
                               THEN [db[id] EXCEPT !.enhancement_status = TIMEOUT]
                               ELSE db[id]
               /\ \A id \in stuck :
                     id \in DOMAIN db /\ db[id].enhancement_status = PROCESSING
               /\ out' = Out("check_stuck_images", "ok", "stuck_images_marked_timeout",
                             Cardinality({ id \in DOMAIN db :
                                 /\ db[id].enhancement_status = PROCESSING
                                 /\ db'[id].enhancement_status = TIMEOUT }))]_vars

\* A sweep returned 1 after timing out a record requested 49 hours earlier.
C11_Witness ==
    /\ out = Out("check_stuck_images", "ok", "stuck_images_marked_timeout", 1)
    /\ \E id \in DOMAIN db :
         /\ db[id].enhancement_status = TIMEOUT
         /\ db[id].enhancement_requested_at + StuckHours < now

\* C12: for a record loaded as processing, a successful re-upload hands the
\* update the URL of a blob just stored in this system's bucket and changes
\* no row; the update then sets status completed, that URL (never the
\* provider's) and the completion time now; and every completed record's
\* enhanced URL is a blob of the bucket.
C12_SuccessCompletes ==
    /\ [][\A h \in Hooks :
             (wimage[h].enhancement_status = PROCESSING /\ WebhookUpload(h, TRUE))
             => /\ wpc'[h] = "update"
                /\ wargs'[h].status = COMPLETED
                /\ wargs'[h].enhanced_url \in storage' \ storage
                /\ db' = db]_vars
    /\ [][\A h \in Hooks :
             (/\ wimage[h].enhancement_status = PROCESSING
              /\ wargs[h].status = COMPLETED
              /\ WebhookUpdate(h))
             => LET id == wimage[h].id
                IN  /\ db'[id].enhancement_status = COMPLETED
                    /\ db'[id].enhanced_url = wargs[h].enhanced_url
                    /\ db'[id].enhanced_url \in storage
                    /\ db'[id].enhanced_url # ProviderUrl
                    /\ db'[id].enhancement_completed_at = now
                    /\ out' = Out("process_webhook", "True",
                                  "enhancement_completed", None)]_vars
    /\ [](\A id \in DOMAIN db :
             db[id].enhancement_status = COMPLETED
                 => db[id].enhanced_url \in storage)

\* A success webhook has just completed a record with a stored blob.
C12_Witness ==
    /\ out = Out("process_webhook", "True", "enhancement_completed", None)
    /\ \E id \in DOMAIN db :
         /\ db[id].enhancement_status = COMPLETED
         /\ db[id].enhanced_url \in storage
         /\ db[id].enhancement_completed_at = now

\* C13: called on its own for a record loaded as processing, a success
\* webhook whose download or re-upload fails goes on to an update to failed
\* with a non-empty message, storing no blob; that update leaves the record
\* failed with a non-empty error message and no enhanced URL.
C13_TransferFailureFails ==
    /\ [][\A h \in Hooks :
             (/\ wimage[h].enhancement_status = PROCESSING
              /\ WebhookDownload(h, FALSE) \/ WebhookUpload(h, FALSE))
             => /\ wpc'[h] = "update"
                /\ wargs'[h].status = FAILED
                /\ Truthy(wargs'[h].error_message)
                /\ UNCHANGED <<db, storage>>]_vars
    /\ [][\A h \in Hooks :
             (/\ wimage[h].enhancement_status = PROCESSING
              /\ wargs[h].status = FAILED
              /\ wargs[h].error_message \notin {ProviderError, GenericFailedMessage}
              /\ WebhookUpdate(h))
             => LET id == wimage[h].id
                IN  /\ db'[id].enhancement_status = FAILED
                    /\ Truthy(db'[id].enhancement_error_message)
                    /\ db'[id].enhanced_url = None
                    /\ out' = Out("process_webhook", "True",
                                  "enhancement_processing_failed", None)]_vars

\* A success webhook whose transfer failed has just left the record failed.
C13_Witness ==
    /\ out = Out("process_webhook", "True", "enhancement_processing_failed", None)
    /\ \E id \in DOMAIN db :
         /\ db[id].enhancement_status = FAILED
         /\ db[id].enhancement_error_message = ProcessingFailedMessage
         /\ db[id].enhanced_url = None

\* C14: called on its own, a validly signed failed webhook for a processing
\* record goes straight to the update, with no download or upload step,
\* carrying the provider's message when it is present and non-empty and the
\* generic one otherwise; the update leaves the record failed with that
\* message, the completion time now and no enhanced URL, and stores no blob.
C14_FailedWebhook ==
    /\ [][\A h \in Hooks, d \in Deliveries, id \in DOMAIN db :
             (/\ ValidlySigned(d)
              /\ Names(d, id)
              /\ db[id].enhancement_status = PROCESSING
              /\ ParseBody(d.body).status = "failed"
              /\ WebhookBegin(h, d))
             => LET message == ParseBody(d.body).error_message
                IN  /\ wpc'[h] = "update"
                    /\ wargs'[h] =
                         [status |-> FAILED, enhanced_url |-> None,
                          error_message |->
                              IF message \notin {None, ""}
                              THEN message ELSE GenericFailedMessage]
                    /\ UNCHANGED <<db, storage>>]_vars
    /\ [][\A h \in Hooks :
             (/\ wimage[h].enhancement_status = PROCESSING
              /\ wargs[h].status = FAILED
              /\ wargs[h].error_message \in {ProviderError, GenericFailedMessage}
              /\ WebhookUpdate(h))
             => LET id == wimage[h].id
                IN  /\ db'[id].enhancement_status = FAILED
                    /\ db'[id].enhancement_error_message = wargs[h].error_message
                    /\ db'[id].enhancement_completed_at = now
                    /\ db'[id].enhanced_url = None
                    /\ storage' = storage
                    /\ out' = Out("process_webhook", "True",
                                  "enhancement_failed", None)]_vars

\* A failed webhook without a message has just left the record failed with
\* the generic message.
C14_Witness ==
    /\ out = Out("process_webhook", "True", "enhancement_failed", None)
    /\ \E id \in DOMAIN db :
         /\ db[id].enhancement_status = FAILED
         /\ db[id].enhancement_error_message = GenericFailedMessage
         /\ db[id].enhancement_completed_at = now
         /\ db[id].enhanced_url = None

\* C15: a request for a failed record passes the status test and goes on
\* to the provider call; the update after a successful call sets status
\* processing and the request time now; and the sweep lists a record only
\* when its stored request time is more than the threshold ago.
C15_ReEnhancement ==
    /\ [][\A r \in Reqs, id \in DOMAIN db :
             (db[id].enhancement_status = FAILED /\ ReqBegin(r, id))
             => /\ rpc'[r] = "call"
                /\ rimage'[r] = id
                /\ out' = Silent
                /\ db' = db]_vars
    /\ [][\A r \in Reqs :
             ReqUpdate(r)
             => /\ db'[rimage[r]].enhancement_status = PROCESSING
                /\ db'[rimage[r]].enhancement_requested_at = now]_vars
    /\ [][SweepScan
            => \A id \in stuck' :
                 db[id].enhancement_requested_at + StuckHours < now]_vars

\* A record that failed more than the threshold ago and was requested
\* again now is processing, and a sweep has just found nothing stuck.
C15_Witness ==
    /\ out = Out("check_stuck_images", "ok", "check_stuck_images_completed", 0)
    /\ \E id \in DOMAIN db :
         /\ db[id].enhancement_status = PROCESSING
         /\ db[id].enhancement_error_message # None
         /\ db[id].enhancement_completed_at # NoTime
         /\ db[id].enhancement_completed_at + StuckHours < now
         /\ db[id].enhancement_requested_at = now

\* C16: once a record is timeout, no step changes its status, its enhanced
\* URL or its completion time.
C16_TimeoutTerminal ==
    [][\A id \in DOMAIN db :
          db[id].enhancement_status = TIMEOUT
          => /\ db'[id].enhancement_status = TIMEOUT
             /\ db'[id].enhanced_url = db[id].enhanced_url
             /\ db'[id].enhancement_completed_at
                    = db[id].enhancement_completed_at]_vars

\* C17: a validly signed delivery whose job id is the text of no UUID makes
\* process_webhook return False, load no row and change no row, blob or
\* handler.
C17_MalformedJobId ==
    [][\A h \in Hooks, d \in Deliveries :
          (/\ ValidlySigned(d)
           /\ \A id \in ImageIds : ~Names(d, id)
           /\ WebhookBegin(h, d))
          => /\ out' = Out("process_webhook", "False",
                           "webhook_invalid_job_id", None)
             /\ UNCHANGED <<db, storage, tick, wvars, rvars, svars>>]_vars

\* A delivery with a malformed job id was answered False while a record is
\* processing.
C17_Witness ==
    /\ out = Out("process_webhook", "False", "webhook_invalid_job_id", None)
    /\ \E id \in DOMAIN db : db[id].enhancement_status = PROCESSING

\* C18: the endpoint answers 200 with success = true exactly when
\* process_webhook returned True, and 400 when it returned False or raised
\* (signature failure or any other error); it produces no other status
\* code and changes no row.
C18_EndpointStatus ==
    [][AiEnhancementWebhook
        => /\ out.outcome \in {"True", "False", "ValidationException",
                                "SQLAlchemyError"}
           /\ out.outcome = "True"
                <=> out' = Out("ai_enhancement_webhook", "200",
                               "webhook_processed", "success: true")
           /\ out.outcome # "True"
                <=> out' = Out("ai_enhancement_webhook", "400",
                               "webhook_processing_failed", "detail")
           /\ db' = db]_vars

\* The endpoint has answered 400 while a record is processing.
C18_Witness ==
    /\ out = Out("ai_enhancement_webhook", "400",
                 "webhook_processing_failed", "detail")
    /\ \E id \in DOMAIN db : db[id].enhancement_status = PROCESSING

\* C19: process_webhook passes the signature test exactly when the
\* signature is the digest, keyed with the secret, of the body as received.
C19_SignatureOverReceivedBytes ==
    [][\A h \in Hooks, d \in Deliveries :
          WebhookBegin(h, d)
          => (out'.outcome # "ValidationException"
                <=> d.signature = HmacSha256Hex(Secret, d.body))]_vars

\* C20: the update of a request never finds the record already processing:
\* of two requests racing on one record only one writes the transition.
C20_SingleSubmission ==
    [][\A r \in Reqs :
          ReqUpdate(r)
          => db[rimage[r]].enhancement_status # PROCESSING]_vars

\* C21: a sweep either commits every listed record as timeout and reports
\* their number, or, when the store fails, changes no record and reports
\* zero processed.
C21_SweepAllOrNothing ==
    /\ [][SweepMark
            => /\ \A id \in stuck : db'[id].enhancement_status = TIMEOUT
               /\ out'.outcome = "ok"
               /\ out'.value = Cardinality(stuck)]_vars
    /\ [][(\/ (SweepScanFails /\ GetStuckImages(db, StuckHours, now) # {})
            \/ SweepMarkFails)
            => /\ db' = db
               /\ spc' = "idle"
               /\ out'.outcome = "ok"
               /\ out'.value = 0]_vars

\* C24: upload_image creates one record, pending, with the URL of a blob
\* this call stored and every enhancement column null; when the property
\* is missing, the file is invalid or the blob upload fails it raises and
\* creates no record.
C24_UploadCreatesPending ==
    /\ [][UploadImage
            => \E id \in ImageIds \ DOMAIN db :
                 /\ DOMAIN db' = DOMAIN db \cup {id}
                 /\ \A other \in DOMAIN db : db'[other] = db[other]
                 /\ db'[id].enhancement_status = PENDING
                 /\ db'[id].original_url \in storage' \ storage
                 /\ db'[id].enhanced_url = None
                 /\ db'[id].ai_job_id = None
                 /\ db'[id].enhancement_requested_at = NoTime
                 /\ db'[id].enhancement_completed_at = NoTime
                 /\ db'[id].enhancement_error_message = None]_vars
    /\ [][\A p, v, u \in BOOLEAN :
             UploadImageFails(p, v, u)
             => /\ ~(p /\ v /\ u)
                /\ db' = db
                /\ out'.outcome \in {"PropertyNotFoundException",
                                     "ValidationException", "StorageException"}]_vars

\* An upload has just created a pending record for a stored blob.
C24_Witness ==
    /\ out = Out("upload_image", "ok", "image_uploaded", None)
    /\ \E id \in DOMAIN db :
         /\ db[id].enhancement_status = PENDING
         /\ db[id].original_url \in storage
         /\ db[id].ai_job_id = None

\* C22: under the beat schedule every record that is processing is
\* eventually completed, failed or timeout, whether or not a webhook for it
\* is ever handled.
C22_NoStuckForever ==
    \A id \in ImageIds :
        (id \in DOMAIN db /\ db[id].enhancement_status = PROCESSING)
            ~> (id \in DOMAIN db /\ db[id].enhancement_status
                                       \in {COMPLETED, FAILED, TIMEOUT})

\* A record for which no webhook was ever applied has been timed out by
\* the sweep.
C22_Witness ==
    /\ out = Out("check_stuck_images", "ok", "stuck_images_marked_timeout", 1)
    /\ \A h \in Hooks : wpc[h] = "idle"
    /\ \E id \in DOMAIN db :
         /\ db[id].enhancement_status = TIMEOUT
         /\ db[id].enhancement_completed_at = NoTime
         /\ db[id].enhanced_url = None

\* C23: a request whose provider call times out raises and changes no
\* record; a validly signed webhook that then arrives for the record, still
\* pending or failed, is not refused; and what the webhook writes to a
\* record it loaded as pending is a transition of the table.
C23_TimedOutRequestThenWebhook ==
    /\ [][\A r \in Reqs : \A x \in AIExchanges(r) :
             (x.kind = "timeout" /\ ReqCallAI(r, x))
             => /\ db' = db
                /\ out'.outcome = "ImageEnhancementException"]_vars
    /\ [][\A h \in Hooks, d \in Deliveries, id \in DOMAIN db :
             (/\ ValidlySigned(d)
              /\ Names(d, id)
              /\ db[id].enhancement_status \in {PENDING, FAILED}
              /\ WebhookBegin(h, d))
             => out'.outcome \notin {"False", "ValidationException"}]_vars
    /\ [][\A h \in Hooks :
             (wimage[h].enhancement_status = PENDING /\ WebhookUpdate(h))
             => LET id == wimage[h].id
                IN  \/ db'[id].enhancement_status = db[id].enhancement_status
                    \/ <<db[id].enhancement_status,
                          db'[id].enhancement_status>> \in TableEdges]_vars

\* C25: every processing record has a request time and a provider job id.
C25_ProcessingHasRequestData ==
    \A id \in DOMAIN db :
        db[id].enhancement_status = PROCESSING
        => /\ db[id].enhancement_requested_at # NoTime
           /\ db[id].ai_job_id # None

\* C27: a validly signed delivery for a record that is neither completed
\* nor failed, whose status is not "failed" and is not "success" with a
\* non-empty URL, returns True and changes no row, blob or handler.
C27_UnhandledStatusIsNoop ==
    [][\A h \in Hooks, d \in Deliveries, id \in DOMAIN db :
          (/\ ValidlySigned(d)
           /\ Names(d, id)
           /\ db[id].enhancement_status \notin {COMPLETED, FAILED}
           /\ ParseBody(d.body).status # "failed"
           /\ \/ ParseBody(d.body).status # "success"
              \/ ParseBody(d.body).enhanced_image_url \in {None, ""}
           /\ WebhookBegin(h, d))
          => /\ out' = Out("process_webhook", "True", None, None)
             /\ UNCHANGED <<db, storage, tick, wvars, rvars, svars>>]_vars

\* A delivery that is neither a failure nor a success with a URL was
\* answered True while the record stays processing.
C27_Witness ==
    /\ out = Out("process_webhook", "True", None, None)
    /\ \E id \in DOMAIN db : db[id].enhancement_status = PROCESSING

\* C28: a validly signed delivery whose job id is the text of a UUID that
\* names no record returns False, starts no download or upload and changes
\* no row, blob or handler.
C28_UnknownRecord ==
    [][\A h \in Hooks, d \in Deliveries :
          (/\ ValidlySigned(d)
           /\ \E id \in ImageIds \ DOMAIN db : Names(d, id)
           /\ WebhookBegin(h, d))
          => /\ out' = Out("process_webhook", "False",
                           "webhook_image_not_found", None)
             /\ UNCHANGED <<db, storage, tick, wvars, rvars, svars>>]_vars

\* A delivery naming a record that does not exist was answered False.
C28_Witness ==
    /\ out = Out("process_webhook", "False", "webhook_image_not_found", None)
    /\ DOMAIN db # ImageIds

\* C29: the job id a successful request returns to its caller is the job
\* id it stored on the record.
C29_ReturnedJobIdIsStored ==
    [][\A r \in Reqs :
          ReqUpdate(r) => out'.value = db'[rimage[r]].ai_job_id]_vars

\* C26: once the record whose first attempt was failed by
\* FirstAttemptWebhook is processing again, an update brought by a delivery
\* of those same bytes changes neither its status nor its enhanced URL nor
\* its error message.
C26_StaleWebhookIgnored ==
    [][\A h \in Hooks :
          (/\ wargs[h] = [status |-> FAILED, enhanced_url |-> None,
                          error_message |-> ProviderError]
           /\ wimage[h].id = "img-1"
           /\ db["img-1"].enhancement_status = PROCESSING
           /\ WebhookUpdate(h))
          => /\ db'["img-1"].enhancement_status = PROCESSING
             /\ db'["img-1"].enhanced_url = db["img-1"].enhanced_url
             /\ db'["img-1"].enhancement_error_message
                    = db["img-1"].enhancement_error_message]_vars

\* C30: no step of a request or of a webhook handler changes a record
\* other than the one the call names, the handlers hold no other record,
\* and no step removes a record or changes its original URL.
C30_OnlyNamedRecord ==
    /\ [][\A r \in Reqs :
             (\/ \E id \in ImageIds : ReqBegin(r, id)
              \/ \E x \in AIExchanges(r) : ReqCallAI(r, x)
              \/ ReqUpdate(r))
             => \A other \in DOMAIN db :
                  other \notin {rimage[r], rimage'[r]} => db'[other] = db[other]]_vars
    /\ [][\A h \in Hooks :
             (\/ \E d \in Deliveries : WebhookBegin(h, d)
              \/ \E ok \in BOOLEAN : WebhookDownload(h, ok)
              \/ \E ok \in BOOLEAN : WebhookUpload(h, ok)
              \/ WebhookUpdate(h))
             => \A other \in DOMAIN db :
                  other \notin {wimage[h].id, wimage'[h].id}
                      => db'[other] = db[other]]_vars
    /\ [][\A h \in Hooks, d \in Deliveries :
             WebhookBegin(h, d)
             => wimage'[h].id \in {None, ParseUUID(ParseBody(d.body).job_id)}]_vars
    /\ [][\A r \in Reqs, id \in ImageIds :
             ReqBegin(r, id) => rimage'[r] \in {None, id}]_vars
    /\ [][/\ DOMAIN db \subseteq DOMAIN db'
          /\ \A id \in DOMAIN db :
               db'[id].original_url = db[id].original_url]_vars

\* The named record was enhanced while the other record stayed as it was.
C30_Witness ==
    /\ out = Out("process_webhook", "True", "enhancement_completed", None)
    /\ Bystander \in DOMAIN db
    /\ db[Bystander] = BystanderImage
    /\ db["img-1"].enhancement_status = COMPLETED
    /\ db["img-1"].ai_job_id # None

====
